---------------------------- MODULE Spec2Model ----------------------------
(***************************************************************************)
(* Model of dash-evo-tool's local identity store (src/database) and of the *)
(* withdrawal status screen (src/ui/withdraws_status_screen.rs).           *)
(*                                                                         *)
(* The identity table is a bag (multiset) of rows, the top_up table a set  *)
(* of rows.  Every public method of Database is one action, except         *)
(* insert_remote_identity_if_not_exists, which is split at its lock        *)
(* acquisitions so that its concurrent interleavings are visible.          *)
(***************************************************************************)
EXTENDS Integers, Sequences, FiniteSets, Bags, TLC

VARIABLES
    table,      \* the identity table: a bag of rows
    topUps,     \* the top_up table: a set of rows
    mutex,      \* Database.conn: [holder, poisoned]
    pc,         \* per thread: where it is in a store call
    args,       \* per thread: the arguments of its insert_remote call in flight
    lastCall,   \* the store call that completed last: [op, result, rows]
    data,           \* WithdrawsStatusScreen.data: None or Some(snapshot)
    error_message,  \* WithdrawsStatusScreen.error_message
    sort_column,    \* WithdrawsStatusScreen.sort_column: Option<SortColumn>
    sort_ascending, \* WithdrawsStatusScreen.sort_ascending
    filter_status,  \* filter_status_queued .. filter_status_expired, by status
    filter_status_mix,          \* WithdrawsStatusScreen.filter_status_mix
    pagination_current_page,    \* WithdrawsStatusScreen.pagination_current_page
    pagination_items_per_page,  \* WithdrawsStatusScreen.pagination_items_per_page
    screen_pc,      \* where the screen's owner is: idle, inside refresh, or panicked
    observed,       \* what the last show_output read: [error_message, data]
    lastEvent,      \* the screen method that ran last
    key_info_screen \* the KeyInfoScreen, once one is open

storeVars == <<table, topUps, mutex, pc, args, lastCall>>
viewVars ==
    <<sort_column, sort_ascending, filter_status, filter_status_mix,
      pagination_current_page, pagination_items_per_page>>
screenVars == <<data, error_message, viewVars, screen_pc, observed, lastEvent>>
vars == <<storeVars, screenVars, key_info_screen>>

-----------------------------------------------------------------------------
(* Option<T>: None is the empty tuple, Some(x) the one-element tuple.      *)
None == << >>
Some(x) == <<x>>
IsSome(o) == o # None
Unwrap(o) == o[1]
Option(S) == {None} \cup {Some(x) : x \in S}

-----------------------------------------------------------------------------
(* Input domains.                                                          *)
Ids == {"I1", "I2"}
Networks == {"dash", "testnet"}
IdentityTypes == {"User", "Masternode"}
Aliases == {"alice"}
WalletIds == {"W"}
WalletIndices == {3}
Threads == {"t1", "t2"}
NoThread == "none"

(* The fields of a QualifiedIdentity that the store reads.                 *)
QualifiedIdentities ==
    [id : Ids, identity_type : IdentityTypes, alias : Option(Aliases)]

(* QualifiedIdentity::to_bytes / from_bytes: the blob carries the identity *)
(* core; alias, wallet_index and top_ups live in relational columns and    *)
(* are not part of it.                                                     *)
to_bytes(qi) == [id |-> qi.id, identity_type |-> qi.identity_type]

from_bytes(blob) ==
    [id |-> blob.id, identity_type |-> blob.identity_type,
     alias |-> None, wallet_index |-> None, top_ups |-> << >>]

-----------------------------------------------------------------------------
(* The identity table.                                                     *)

(* The table's uniqueness key: (identifier, network).                      *)
PrimaryKey(r) == <<r.id, r.network>>

(* A row: the columns the statements of identities.rs name, and one        *)
(* history field, inserted_with, that no statement reads or writes: the    *)
(* derivation index given to the insert that created the row.              *)
Row(id, blob, is_local, alias, identity_type, network, is_in_creation, wallet, wallet_index) ==
    [id |-> id, data |-> blob, is_local |-> is_local, alias |-> alias,
     identity_type |-> identity_type, network |-> network,
     is_in_creation |-> is_in_creation, wallet |-> wallet,
     wallet_index |-> wallet_index, inserted_with |-> None]

InsertedWith(row, index) == [row EXCEPT !.inserted_with = index]

Rows(t) == BagToSet(t)
RowCount(t) == BagCardinality(t)
SelectBag(t, P(_)) == [r \in {x \in DOMAIN t : P(x)} |-> t[r]]
CountWhere(t, P(_)) == BagCardinality(SelectBag(t, P))

InsertOrReplace_KeepsOld(t, row) == t (+) SetToBag({row})

(* INSERT OR REPLACE: rows in conflict on the key are deleted, then the    *)
(* new row is inserted.                                                    *)
InsertOrReplace(t, row) ==
    LET Other(r) == PrimaryKey(r) # PrimaryKey(row)
    IN  SelectBag(t, Other) (+) SetToBag({row})

(* Plain INSERT: fails on a key conflict.                                  *)
InsertConflicts(t, row) ==
    \E r \in Rows(t) : PrimaryKey(r) = PrimaryKey(row)

InsertPlain(t, row) == t (+) SetToBag({row})

(* UPDATE ... SET f(r) WHERE P(r): the rows changed, the table afterwards  *)
(* and whether the result breaks the uniqueness key (the statement is then *)
(* aborted and its changes undone).                                        *)
UpdateWhere(t, P(_), F(_)) ==
    LET Keep(r) == ~P(r)
    IN  SelectBag(t, Keep) (+) BagOfAll(F, SelectBag(t, P))

KeyUnique(t) ==
    \A r1, r2 \in Rows(t) :
        PrimaryKey(r1) = PrimaryKey(r2) => (r1 = r2 /\ CopiesIn(r1, t) = 1)

(* DELETE ... WHERE P(r).                                                  *)
DeleteWhere(t, P(_)) ==
    LET Keep(r) == ~P(r)
    IN  SelectBag(t, Keep)

-----------------------------------------------------------------------------
(* Database.conn: Mutex<Connection>.                                       *)
MutexFree == mutex.holder = NoThread
Usable == MutexFree /\ ~mutex.poisoned

Done(op, result, rows) == [op |-> op, result |-> result, rows |-> rows]

NoArgs == [id |-> "I1", network |-> "dash", qualified_identity |-> None]

(* lock().unwrap() on a poisoned mutex panics: any store call made by an   *)
(* idle or waiting thread after another thread panicked while holding the  *)
(* lock ends the calling thread.                                           *)
PoisonedCall(t) ==
    /\ pc[t] \in {"idle", "ir_wait"}
    /\ MutexFree
    /\ mutex.poisoned
    /\ pc' = [pc EXCEPT ![t] = "panicked"]
    /\ args' = [args EXCEPT ![t] = NoArgs]
    /\ UNCHANGED <<table, topUps, mutex, lastCall>>

(* set_alias: UPDATE identity SET alias = ? WHERE id = ?                   *)
SetAliasMatch(r, identifier) == r.id = identifier

(* if rows_updated == 0 { return Err(QueryReturnedNoRows) }                *)
SetAliasResult_AlwaysOk(rows_updated) == "Ok"

SetAliasResult(rows_updated) ==
    IF rows_updated = 0 THEN "QueryReturnedNoRows" ELSE "Ok"

set_alias(t, identifier, new_alias) ==
    LET P(r) == SetAliasMatch(r, identifier)
        F(r) == [r EXCEPT !.alias = new_alias]
        rows_updated == CountWhere(table, P)
    IN  /\ pc[t] = "idle"
        /\ Usable
        /\ table' = UpdateWhere(table, P, F)
        /\ lastCall' = Done("set_alias", SetAliasResult(rows_updated), rows_updated)
        /\ UNCHANGED <<topUps, mutex, pc, args>>

(* insert_local_qualified_identity: INSERT OR REPLACE with is_local = 1,   *)
(* with the wallet columns only when wallet information is given.          *)
LocalRow(qi, wallet_and_identity_id_info, network) ==
    IF IsSome(wallet_and_identity_id_info)
    THEN InsertedWith(
             Row(qi.id, Some(to_bytes(qi)), 1, qi.alias, qi.identity_type, network,
                 None, Some(Unwrap(wallet_and_identity_id_info)[1]),
                 Some(Unwrap(wallet_and_identity_id_info)[2])),
             Some(Unwrap(wallet_and_identity_id_info)[2]))
    ELSE Row(qi.id, Some(to_bytes(qi)), 1, qi.alias, qi.identity_type, network,
             None, None, None)

insert_local_qualified_identity(t, qi, wallet_and_identity_id_info, network) ==
    /\ pc[t] = "idle"
    /\ Usable
    /\ table' = InsertOrReplace(table, LocalRow(qi, wallet_and_identity_id_info, network))
    /\ lastCall' = Done("insert_local", "Ok", 1)
    /\ UNCHANGED <<topUps, mutex, pc, args>>

(* update_local_qualified_identity: UPDATE identity SET data, alias,       *)
(* identity_type, network, is_local = 1 WHERE id = ?                       *)
UpdateLocalMatch(r, qi, network) == r.id = qi.id

UpdateLocalSet_KeepsData(r, qi, network) ==
    [r EXCEPT !.alias = qi.alias, !.identity_type = qi.identity_type,
              !.network = network, !.is_local = 1]

UpdateLocalSet(r, qi, network) ==
    [r EXCEPT !.data = Some(to_bytes(qi)), !.alias = qi.alias,
              !.identity_type = qi.identity_type, !.network = network,
              !.is_local = 1]

update_local_qualified_identity(t, qi, network) ==
    LET P(r) == UpdateLocalMatch(r, qi, network)
        F(r) == UpdateLocalSet(r, qi, network)
        updated == UpdateWhere(table, P, F)
    IN  /\ pc[t] = "idle"
        /\ Usable
        /\ IF KeyUnique(updated)
           THEN /\ table' = updated
                /\ lastCall' = Done("update_local", "Ok", CountWhere(table, P))
           ELSE /\ table' = table
                /\ lastCall' = Done("update_local", "ConstraintViolation", 0)
        /\ UNCHANGED <<topUps, mutex, pc, args>>

(* insert_local_qualified_identity_in_creation: INSERT OR REPLACE with     *)
(* is_local = 1, is_in_creation = 1 and the wallet columns.                *)
InCreationRow(qi, wallet_id, identity_index, network) ==
    InsertedWith(
        Row(qi.id, Some(to_bytes(qi)), 1, qi.alias, qi.identity_type, network,
            Some(1), Some(wallet_id), Some(identity_index)),
        Some(identity_index))

insert_local_qualified_identity_in_creation(t, qi, wallet_id, identity_index, network) ==
    /\ pc[t] = "idle"
    /\ Usable
    /\ table' = InsertOrReplace(table, InCreationRow(qi, wallet_id, identity_index, network))
    /\ lastCall' = Done("insert_in_creation", "Ok", 1)
    /\ UNCHANGED <<topUps, mutex, pc, args>>

(* delete_local_qualified_identity:                                        *)
(* DELETE FROM identity WHERE id = ? AND network = ? AND is_local = 1      *)
DeleteLocalMatch_AnyNetwork(r, identifier, network) ==
    r.id = identifier /\ r.is_local = 1

DeleteLocalMatch(r, identifier, network) ==
    r.id = identifier /\ r.network = network /\ r.is_local = 1

delete_local_qualified_identity(t, identifier, network) ==
    LET P(r) == DeleteLocalMatch(r, identifier, network)
    IN  /\ pc[t] = "idle"
        /\ Usable
        /\ table' = DeleteWhere(table, P)
        /\ lastCall' = Done("delete_local", "Ok", CountWhere(table, P))
        /\ UNCHANGED <<topUps, mutex, pc, args>>

(* insert_remote_identity_if_not_exists.  The row it would insert:         *)
RemoteRow(a) ==
    LET qi == a.qualified_identity
    IN  Row(a.id,
            IF IsSome(qi) THEN Some(to_bytes(Unwrap(qi))) ELSE None,
            0,
            IF IsSome(qi) THEN Unwrap(qi).alias ELSE None,
            IF IsSome(qi) THEN Unwrap(qi).identity_type ELSE "",
            a.network, None, None, None)

ExistsCount_LocalOnly(t, identifier, network) ==
    LET P(r) == r.id = identifier /\ r.network = network /\ r.is_local = 1
    IN  CountWhere(t, P)

(* SELECT COUNT( * ) FROM identity WHERE id = ? AND network = ?            *)
ExistsCount(t, identifier, network) ==
    LET P(r) == r.id = identifier /\ r.network = network
    IN  CountWhere(t, P)

(* A call that arrives while another thread holds the connection blocks in *)
(* self.conn.lock().                                                       *)
insert_remote_blocked(t, identifier, qualified_identity, network) ==
    /\ pc[t] = "idle"
    /\ ~MutexFree
    /\ pc' = [pc EXCEPT ![t] = "ir_wait"]
    /\ args' = [args EXCEPT ![t] = [id |-> identifier, network |-> network,
                                    qualified_identity |-> qualified_identity]]
    /\ UNCHANGED <<table, topUps, mutex, lastCall>>

HolderAfterCheck_Released(t) == NoThread

(* Who holds the connection after the existence check found no row: the    *)
(* guard `conn` lives to the end of the function.                          *)
HolderAfterCheck(t) == t

(* let conn = self.conn.lock().unwrap(); ...; count = query_row(...).  If  *)
(* a row exists the function returns Ok and the guard is dropped; if none  *)
(* exists the thread goes on to self.execute with the guard still alive.   *)
insert_remote_check(t, identifier, qualified_identity, network) ==
    LET a == [id |-> identifier, network |-> network,
              qualified_identity |-> qualified_identity]
        count == ExistsCount(table, identifier, network)
    IN  /\ pc[t] = "idle" \/ (pc[t] = "ir_wait" /\ args[t] = a)
        /\ Usable
        /\ IF count = 0
           THEN /\ pc' = [pc EXCEPT ![t] = "ir_insert"]
                /\ args' = [args EXCEPT ![t] = a]
                /\ mutex' = [mutex EXCEPT !.holder = HolderAfterCheck(t)]
                /\ UNCHANGED lastCall
           ELSE /\ pc' = [pc EXCEPT ![t] = "idle"]
                /\ args' = [args EXCEPT ![t] = NoArgs]
                /\ lastCall' = Done("insert_remote", "Ok", 0)
                /\ UNCHANGED mutex
        /\ UNCHANGED <<table, topUps>>

(* self.execute(...) locks self.conn again.  std::sync::Mutex is not       *)
(* re-entrant: locking it on the thread that holds it never returns, it    *)
(* deadlocks or panics.  A panic unwinds through the guard `conn`, which   *)
(* releases and poisons the mutex.                                         *)
RelockOutcome(t) ==
    \/ /\ pc' = [pc EXCEPT ![t] = "ir_deadlocked"]
       /\ args' = [args EXCEPT ![t] = NoArgs]
       /\ UNCHANGED mutex
    \/ /\ pc' = [pc EXCEPT ![t] = "ir_panicked"]
       /\ mutex' = [holder |-> NoThread, poisoned |-> TRUE]
       /\ args' = [args EXCEPT ![t] = NoArgs]

(* Database::execute with the connection free: the INSERT runs.            *)
ExecuteInsert(t) ==
    /\ Usable
    /\ IF InsertConflicts(table, RemoteRow(args[t]))
       THEN /\ table' = table
            /\ lastCall' = Done("insert_remote", "ConstraintViolation", 0)
       ELSE /\ table' = InsertPlain(table, RemoteRow(args[t]))
            /\ lastCall' = Done("insert_remote", "Ok", 1)
    /\ pc' = [pc EXCEPT ![t] = "idle"]
    /\ args' = [args EXCEPT ![t] = NoArgs]
    /\ UNCHANGED <<topUps, mutex>>

insert_remote_execute(t) ==
    /\ pc[t] = "ir_insert"
    /\ IF mutex.holder = t
       THEN RelockOutcome(t) /\ UNCHANGED <<table, topUps, lastCall>>
       ELSE ExecuteInsert(t)

(* Recording a top-up: a row (identity_id, top_up_index, amount), the      *)
(* index unique per identity.                                              *)
TopUpEntries == {<<0, 1000>>, <<1, 2000>>}

add_top_up(t, identity_id, top_up_index, amount) ==
    /\ pc[t] = "idle"
    /\ Usable
    /\ ~\E r \in topUps : r.identity_id = identity_id /\ r.top_up_index = top_up_index
    /\ topUps' = topUps \cup {[identity_id |-> identity_id,
                               top_up_index |-> top_up_index, amount |-> amount]}
    /\ lastCall' = Done("add_top_up", "Ok", 1)
    /\ UNCHANGED <<table, mutex, pc, args>>

-----------------------------------------------------------------------------
(* The listings.                                                           *)

TopUpsOf_AnyIdentity(identity_id) ==
    [i \in {r.top_up_index : r \in topUps} |->
        (CHOOSE r \in topUps : r.top_up_index = i).amount]

(* SELECT top_up_index, amount FROM top_up WHERE identity_id = ?, folded   *)
(* into a BTreeMap.                                                        *)
TopUpsOf(identity_id) ==
    LET rows == {r \in topUps : r.identity_id = identity_id}
    IN  [i \in {r.top_up_index : r \in rows} |->
            (CHOOSE r \in rows : r.top_up_index = i).amount]

LocalListed_AnyNetwork(r, network) == r.is_local = 1 /\ r.data # None

LocalListed(r, network) == r.is_local = 1 /\ r.network = network /\ r.data # None

ListedIdentity(r) ==
    LET identity == from_bytes(Unwrap(r.data))
    IN  [identity EXCEPT !.alias = r.alias, !.wallet_index = r.wallet_index,
                         !.top_ups = TopUpsOf(identity.id)]

get_local_qualified_identities(network) ==
    LET P(r) == LocalListed(r, network)
    IN  BagOfAll(ListedIdentity, SelectBag(table, P))

(* get_local_voting_identities and get_local_user_identities select on the *)
(* identity_type column as well and return the decoded blob as it is.      *)
VotingListed(r, network) ==
    r.is_local = 1 /\ r.network = network /\ r.identity_type # "User" /\ r.data # None

UserListed_AnyType(r, network) ==
    r.is_local = 1 /\ r.network = network /\ r.data # None

UserListed(r, network) ==
    r.is_local = 1 /\ r.network = network /\ r.identity_type = "User" /\ r.data # None

DecodedIdentity(r) == from_bytes(Unwrap(r.data))

get_local_voting_identities(network) ==
    LET P(r) == VotingListed(r, network)
    IN  BagOfAll(DecodedIdentity, SelectBag(table, P))

get_local_user_identities(network) ==
    LET P(r) == UserListed(r, network)
    IN  BagOfAll(DecodedIdentity, SelectBag(table, P))

-----------------------------------------------------------------------------
(* The database file is durable: a session opens it with whatever rows     *)
(* earlier sessions left.  Here: any set of remote stub rows.              *)
StubRows ==
    {Row(id, None, 0, None, "", network, None, None, None) :
        id \in Ids, network \in Networks}

StoreInit ==
    /\ table \in {SetToBag(S) : S \in SUBSET StubRows}
    /\ topUps = {}
    /\ mutex = [holder |-> NoThread, poisoned |-> FALSE]
    /\ pc = [t \in Threads |-> "idle"]
    /\ args = [t \in Threads |-> NoArgs]
    /\ lastCall = Done("none", "Ok", 0)

(* WithdrawsStatusScreen::new: no snapshot, no message.                     *)
new ==
    /\ data = None
    /\ error_message = None
    /\ sort_column = Some("DateTime")
    /\ sort_ascending = FALSE
    /\ filter_status = [s \in {"QUEUED", "POOLED", "BROADCASTED", "COMPLETE", "EXPIRED"} |->
                            s # "EXPIRED"]
    /\ filter_status_mix = <<"QUEUED", "POOLED", "BROADCASTED", "COMPLETE", "EXPIRED">>
    /\ pagination_current_page = 0
    /\ pagination_items_per_page = 15
    /\ screen_pc = "idle"
    /\ observed = None
    /\ lastEvent = "new"

WalletInfos == Option(WalletIds \X WalletIndices)

(* What a caller passes as the observed identity: nothing, or an identity  *)
(* with the identifier it passes.                                          *)
RemoteIdentities(id, Q) == Option({q \in Q : q.id = id})

Init == StoreInit /\ new /\ key_info_screen = None

(* The store's calls made by the threads T, with local identities drawn    *)
(* from Q, aliases from A and observed remote identities from R.           *)
StoreNext(T, Q, A, R) ==
    \/ \E t \in T, id \in Ids, a \in A :
          set_alias(t, id, a) /\ UNCHANGED <<screenVars, key_info_screen>>
    \/ \E t \in T, qi \in Q, w \in WalletInfos, n \in Networks :
          insert_local_qualified_identity(t, qi, w, n) /\ UNCHANGED <<screenVars, key_info_screen>>
    \/ \E t \in T, qi \in Q, n \in Networks :
          update_local_qualified_identity(t, qi, n) /\ UNCHANGED <<screenVars, key_info_screen>>
    \/ \E t \in T, qi \in Q, w \in WalletIds, i \in WalletIndices, n \in Networks :
          insert_local_qualified_identity_in_creation(t, qi, w, i, n) /\ UNCHANGED <<screenVars, key_info_screen>>
    \/ \E t \in T, id \in Ids, n \in Networks :
          delete_local_qualified_identity(t, id, n) /\ UNCHANGED <<screenVars, key_info_screen>>
    \/ \E t \in T, id \in Ids, n \in Networks :
          \E qi \in RemoteIdentities(id, R) :
              insert_remote_check(t, id, qi, n) /\ UNCHANGED <<screenVars, key_info_screen>>
    \/ \E t \in T : insert_remote_execute(t) /\ UNCHANGED <<screenVars, key_info_screen>>

BlockedNext(T, R) ==
    \E t \in T, id \in Ids, n \in Networks :
        \E qi \in RemoteIdentities(id, R) :
            insert_remote_blocked(t, id, qi, n) /\ UNCHANGED <<screenVars, key_info_screen>>

PoisonNext(T) ==
    \E t \in T : PoisonedCall(t) /\ UNCHANGED <<screenVars, key_info_screen>>

TopUpNext(T) ==
    \E t \in T, id \in Ids, e \in TopUpEntries :
        add_top_up(t, id, e[1], e[2]) /\ UNCHANGED <<screenVars, key_info_screen>>

MainThread == {"t1"}
UserIdentities == {q \in QualifiedIdentities : q.identity_type = "User"}
PlainIdentities == {q \in UserIdentities : q.alias = None}

(* Spec: one thread, every store call, aliases set and cleared.            *)
Next == StoreNext(MainThread, UserIdentities, Option(Aliases), UserIdentities)

Spec == Init /\ [][Next]_vars

(* SpecTopUps: one thread, every store call and the recording of top-ups.  *)
NextTopUps ==
    \/ StoreNext(MainThread, PlainIdentities, {None}, {})
    \/ TopUpNext(MainThread)

SpecTopUps == Init /\ [][NextTopUps]_vars

(* SpecTypes: one thread, every store call, identities of both types.      *)
TypedIdentities == {q \in QualifiedIdentities : q.alias = None}

NextTypes == StoreNext(MainThread, TypedIdentities, {None}, {})

SpecTypes == Init /\ [][NextTypes]_vars

(* SpecConcurrent: two threads sharing the Database.                       *)
NextConcurrent ==
    \/ StoreNext(Threads, PlainIdentities, {None}, {})
    \/ BlockedNext(Threads, {})
    \/ PoisonNext(Threads)

SpecConcurrent == Init /\ [][NextConcurrent]_vars

-----------------------------------------------------------------------------
(* The withdrawal status screen (ui/withdraws_status_screen.rs).           *)

WithdrawalStatuses == {"QUEUED", "POOLED", "BROADCASTED", "COMPLETE", "EXPIRED"}

WithdrawRecord(date_time, status, amount, owner_id, address) ==
    [date_time |-> date_time, status |-> status, amount |-> amount,
     owner_id |-> owner_id, address |-> address]

(* The records the platform reports: one withdrawal seen queued and, at a  *)
(* later poll, complete, and a second withdrawal of another owner.         *)
SampleRecords ==
    { WithdrawRecord(1, "QUEUED", 100, "O1", "A1"),
      WithdrawRecord(1, "COMPLETE", 100, "O1", "A1"),
      WithdrawRecord(2, "POOLED", 200, "O2", "A2") }

Aggregates ==
    { [total_amount |-> 100, recent_withdrawal_amounts |-> 10,
       daily_withdrawal_limit |-> 500, total_credits_on_platform |-> 9000],
      [total_amount |-> 150, recent_withdrawal_amounts |-> 20,
       daily_withdrawal_limit |-> 600, total_credits_on_platform |-> 9500] }

MaxBatch == 2
MaxRecords == 3

DedupKey(r) == <<r.owner_id, r.date_time, r.amount>>

DuplicateFree(w) ==
    \A i, j \in 1..Len(w) : i < j => DedupKey(w[i]) # DedupKey(w[j])

SeqsUpTo(S, n) == UNION {[1..k -> S] : k \in 0..n}

(* One query's answer never lists a withdrawal twice.                      *)
Batches == {w \in SeqsUpTo(SampleRecords, MaxBatch) : DuplicateFree(w)}

StatusData(w, a) ==
    [withdrawals |-> w, total_amount |-> a.total_amount,
     recent_withdrawal_amounts |-> a.recent_withdrawal_amounts,
     daily_withdrawal_limit |-> a.daily_withdrawal_limit,
     total_credits_on_platform |-> a.total_credits_on_platform]

(* WithdrawStatusPartialData values that carry every aggregate.            *)
PartialResults == {StatusData(w, a) : w \in Batches, a \in Aggregates}

(* BackendTaskSuccessResult: the WithdrawalStatus variant, or another one. *)
TaskResults ==
    {[kind |-> "WithdrawalStatus", data |-> Some(d)] : d \in PartialResults}
        \cup {[kind |-> "Message", data |-> None]}

Messages == {"failed"}

(* WithdrawStatusData::merge_with_data lives in platform/withdrawals, not  *)
(* in the sources at hand; modelled after sections 4.4 and 9 of the        *)
(* specification: the aggregates are overwritten and the incoming records  *)
(* are appended, with no uniqueness check.                                 *)
merge_with_data(old_data, incoming) ==
    [incoming EXCEPT !.withdrawals = old_data.withdrawals \o incoming.withdrawals]

(* TryFrom<WithdrawStatusPartialData> for WithdrawStatusData, same place:  *)
(* a result that carries every aggregate converts field by field.          *)
try_into(incoming) ==
    StatusData(incoming.withdrawals,
               [total_amount |-> incoming.total_amount,
                recent_withdrawal_amounts |-> incoming.recent_withdrawal_amounts,
                daily_withdrawal_limit |-> incoming.daily_withdrawal_limit,
                total_credits_on_platform |-> incoming.total_credits_on_platform])

SnapshotLen == IF IsSome(data) THEN Len(Unwrap(data).withdrawals) ELSE 0

(* The snapshot stays within cap records: results that would take it       *)
(* beyond are not delivered.                                               *)
Fits(r, cap) ==
    r.kind = "WithdrawalStatus" => SnapshotLen + Len(Unwrap(r.data).withdrawals) <= cap

display_task_result_Replaces(backend_task_success_result) ==
    IF backend_task_success_result.kind = "WithdrawalStatus"
    THEN /\ data' = Some(try_into(Unwrap(backend_task_success_result.data)))
         /\ error_message' = None
         /\ lastEvent' = "display_task_result"
         /\ UNCHANGED <<viewVars, screen_pc, observed>>
    ELSE /\ lastEvent' = "display_task_result"
         /\ UNCHANGED <<data, error_message, viewVars, screen_pc, observed>>

display_task_result_OtherClears(backend_task_success_result) ==
    IF backend_task_success_result.kind = "WithdrawalStatus"
    THEN /\ data' = IF IsSome(data)
                    THEN Some(merge_with_data(Unwrap(data),
                                              Unwrap(backend_task_success_result.data)))
                    ELSE Some(try_into(Unwrap(backend_task_success_result.data)))
         /\ error_message' = None
         /\ lastEvent' = "display_task_result"
         /\ UNCHANGED <<viewVars, screen_pc, observed>>
    ELSE /\ data' = None
         /\ lastEvent' = "display_task_result"
         /\ UNCHANGED <<error_message, viewVars, screen_pc, observed>>

display_task_result(backend_task_success_result) ==
    IF backend_task_success_result.kind = "WithdrawalStatus"
    THEN /\ data' = IF IsSome(data)
                    THEN Some(merge_with_data(Unwrap(data),
                                              Unwrap(backend_task_success_result.data)))
                    ELSE Some(try_into(Unwrap(backend_task_success_result.data)))
         /\ error_message' = None
         /\ lastEvent' = "display_task_result"
         /\ UNCHANGED <<viewVars, screen_pc, observed>>
    ELSE /\ lastEvent' = "display_task_result"
         /\ UNCHANGED <<data, error_message, viewVars, screen_pc, observed>>

refresh ==
    /\ data' = None
    /\ error_message' = None
    /\ lastEvent' = "refresh"
    /\ UNCHANGED <<viewVars, screen_pc, observed>>

display_message(message) ==
    /\ error_message' = Some(message)
    /\ lastEvent' = "display_message"
    /\ UNCHANGED <<data, viewVars, screen_pc, observed>>

-----------------------------------------------------------------------------
(* The screen's frame: show_output and what it calls.                      *)

SortColumns == {"DateTime", "Status", "Amount", "OwnerId", "Destination"}

(* PaginationItemsPerPage: Items10 .. Items50 as their usize values.       *)
PaginationItemsPerPage == {10, 15, 20, 30, 50}

(* `status as u8`: the position of the variant in the enum.                *)
StatusOrdinal(status) ==
    CASE status = "QUEUED" -> 0
      [] status = "POOLED" -> 1
      [] status = "BROADCASTED" -> 2
      [] status = "COMPLETE" -> 3
      [] status = "EXPIRED" -> 4

(* Identifier and address compare lexicographically; the sample names in   *)
(* that order.                                                             *)
NameOrder == <<"A1", "A2", "O1", "O2">>
LexRank(name) == CHOOSE i \in 1..Len(NameOrder) : NameOrder[i] = name

SortKey(column, r) ==
    CASE column = "DateTime" -> r.date_time
      [] column = "Status" -> StatusOrdinal(r.status)
      [] column = "Amount" -> r.amount
      [] column = "OwnerId" -> LexRank(r.owner_id)
      [] column = "Destination" -> LexRank(r.address)

(* Ordering as -1, 0, 1; reversed when the sort is descending.             *)
Ordering(x, y) == IF x < y THEN -1 ELSE IF x > y THEN 1 ELSE 0

compare_KeepsDirection(a, b, column, ascending) ==
    Ordering(SortKey(column, a), SortKey(column, b))

compare(a, b, column, ascending) ==
    IF ascending
    THEN Ordering(SortKey(column, a), SortKey(column, b))
    ELSE Ordering(SortKey(column, b), SortKey(column, a))

(* slice::sort_by is a stable sort; on slices this short it is an          *)
(* insertion sort: each element goes behind the elements that do not       *)
(* compare greater than it.                                                *)
InsertPosition_BeforeEquals(sorted, x, column, ascending) ==
    Cardinality({i \in 1..Len(sorted) : compare(sorted[i], x, column, ascending) < 0})

InsertPosition(sorted, x, column, ascending) ==
    Cardinality({i \in 1..Len(sorted) : compare(sorted[i], x, column, ascending) <= 0})

InsertStable(sorted, x, column, ascending) ==
    LET k == InsertPosition(sorted, x, column, ascending)
    IN  SubSeq(sorted, 1, k) \o <<x>> \o SubSeq(sorted, k + 1, Len(sorted))

RECURSIVE sort_by(_, _, _)
sort_by(w, column, ascending) ==
    IF w = << >>
    THEN << >>
    ELSE InsertStable(sort_by(SubSeq(w, 1, Len(w) - 1), column, ascending),
                      w[Len(w)], column, ascending)

sort_withdraws_data(w) ==
    IF IsSome(sort_column)
    THEN sort_by(w, Unwrap(sort_column), sort_ascending)
    ELSE w

(* handle_column_click leaves everything but the two sort cells alone.     *)
handle_column_click(current_sort) ==
    IF sort_column = Some(current_sort)
    THEN /\ sort_ascending' = ~sort_ascending
         /\ UNCHANGED sort_column
    ELSE /\ sort_column' = Some(current_sort)
         /\ sort_ascending' = TRUE

StatusOrder == <<"QUEUED", "POOLED", "BROADCASTED", "COMPLETE", "EXPIRED">>

SelectSeq2(seq, flags) ==
    LET Checked(s) == flags[s]
    IN  SelectSeq(seq, Checked)

util_build_combined_filter_status_mix(flags) == SelectSeq2(StatusOrder, flags)

Min(a, b) == IF a < b THEN a ELSE b
saturating_sub(a, b) == IF a > b THEN a - b ELSE 0

total_pages_of(n, items_per_page) == (n + items_per_page - 1) \div items_per_page

(* The page the frame renders: the stored page clamped to the last page.   *)
current_page_of(n, items_per_page) ==
    Min(pagination_current_page, saturating_sub(total_pages_of(n, items_per_page), 1))

(* The user's input to one frame: at most one widget reacts.               *)
Event(kind, status, size, column) ==
    [kind |-> kind, status |-> status, size |-> size, column |-> column]

NoEvent == Event("none", "QUEUED", 15, "DateTime")
CheckboxEvents == {Event("checkbox", s, 15, "DateTime") : s \in WithdrawalStatuses}
ItemsPerPageEvents == {Event("items_per_page", "QUEUED", p, "DateTime") : p \in PaginationItemsPerPage}
ColumnEvents == {Event("column", "QUEUED", 15, c) : c \in SortColumns}
PageEvents == {Event("previous", "QUEUED", 15, "DateTime"), Event("next", "QUEUED", 15, "DateTime")}

(* The two builds: with overflow checks `total_pages - 1` panics on 0,     *)
(* without them it wraps to usize::MAX.                                    *)
Builds == {"debug", "release"}

show_withdraws_data(event, snapshot, build) ==
    LET n == Len(snapshot.withdrawals)
        items == IF event.kind = "items_per_page"
                 THEN event.size ELSE pagination_items_per_page
        total_pages == total_pages_of(n, items)
        current_page == current_page_of(n, items)
        flags == IF event.kind = "checkbox"
                 THEN [filter_status EXCEPT ![event.status] = ~@]
                 ELSE filter_status
    IN  /\ filter_status' = flags
        /\ filter_status_mix' = IF event.kind = "checkbox"
                                THEN util_build_combined_filter_status_mix(flags)
                                ELSE filter_status_mix
        /\ pagination_items_per_page' = items
        /\ IF event.kind = "column"
           THEN handle_column_click(event.column)
           ELSE UNCHANGED <<sort_column, sort_ascending>>
        /\ CASE event.kind = "previous" ->
                  /\ pagination_current_page' =
                        IF current_page > 0 THEN current_page - 1
                        ELSE pagination_current_page
                  /\ UNCHANGED screen_pc
             [] event.kind = "next" /\ total_pages = 0 /\ build = "debug" ->
                  /\ screen_pc' = "panicked"
                  /\ UNCHANGED pagination_current_page
             [] event.kind = "next" /\ total_pages = 0 /\ build = "release" ->
                  /\ pagination_current_page' = current_page + 1
                  /\ UNCHANGED screen_pc
             [] event.kind = "next" /\ total_pages > 0 ->
                  /\ pagination_current_page' =
                        IF current_page < total_pages - 1 THEN current_page + 1
                        ELSE pagination_current_page
                  /\ UNCHANGED screen_pc
             [] OTHER -> UNCHANGED <<pagination_current_page, screen_pc>>

(* &mut self of a refresh that has not returned, and its write guard.      *)
ScreenBorrowed_Never == FALSE

ScreenBorrowed == screen_pc \in {"rf_locked", "rf_data_cleared"}

WriteLocked == screen_pc \in {"rf_locked", "rf_data_cleared"}

Observation(error_held, snapshot) == [error_held |-> error_held, snapshot |-> snapshot]

(* show_output: with a message held only the message is shown; otherwise   *)
(* the snapshot is cloned under the read lock and, if there is one, shown. *)
show_output_SortsInPlace(event, build) ==
    /\ screen_pc # "panicked"
    /\ ~ScreenBorrowed
    /\ lastEvent' = "ui"
    /\ IF IsSome(error_message)
       THEN /\ event = NoEvent
            /\ observed' = Some(Observation(TRUE, "unread"))
            /\ UNCHANGED <<data, error_message, viewVars, screen_pc>>
       ELSE /\ ~WriteLocked
            /\ observed' = Some(Observation(FALSE,
                                IF IsSome(data) THEN "Populated" ELSE "Empty"))
            /\ UNCHANGED error_message
            /\ IF IsSome(data)
               THEN /\ data' = Some([Unwrap(data) EXCEPT
                                       !.withdrawals = sort_withdraws_data(@)])
                    /\ show_withdraws_data(event, Unwrap(data), build)
               ELSE /\ event = NoEvent
                    /\ UNCHANGED <<data, viewVars, screen_pc>>

show_output(event, build) ==
    /\ screen_pc # "panicked"
    /\ ~ScreenBorrowed
    /\ lastEvent' = "ui"
    /\ IF IsSome(error_message)
       THEN /\ event = NoEvent
            /\ observed' = Some(Observation(TRUE, "unread"))
            /\ UNCHANGED <<data, error_message, viewVars, screen_pc>>
       ELSE /\ ~WriteLocked
            /\ observed' = Some(Observation(FALSE,
                                IF IsSome(data) THEN "Populated" ELSE "Empty"))
            /\ UNCHANGED <<data, error_message>>
            /\ IF IsSome(data)
               THEN show_withdraws_data(event, Unwrap(data), build)
               ELSE /\ event = NoEvent
                    /\ UNCHANGED <<viewVars, screen_pc>>

ui(event, build) == show_output(event, build)

(* refresh, statement by statement.                                        *)
refresh_lock ==
    /\ screen_pc = "idle"
    /\ screen_pc' = "rf_locked"
    /\ lastEvent' = "refresh"
    /\ UNCHANGED <<data, error_message, viewVars, observed>>

refresh_clear_data ==
    /\ screen_pc = "rf_locked"
    /\ data' = None
    /\ screen_pc' = "rf_data_cleared"
    /\ UNCHANGED <<error_message, viewVars, observed, lastEvent>>

refresh_clear_error ==
    /\ screen_pc = "rf_data_cleared"
    /\ error_message' = None
    /\ screen_pc' = "idle"
    /\ UNCHANGED <<data, viewVars, observed, lastEvent>>

(* The screen alone, over an empty identity table.                         *)
InitScreen ==
    /\ table = EmptyBag
    /\ topUps = {}
    /\ mutex = [holder |-> NoThread, poisoned |-> FALSE]
    /\ pc = [t \in Threads |-> "idle"]
    /\ args = [t \in Threads |-> NoArgs]
    /\ lastCall = Done("none", "Ok", 0)
    /\ new
    /\ key_info_screen = None

NextScreen ==
    \/ \E r \in TaskResults : Fits(r, MaxRecords) /\ display_task_result(r) /\ UNCHANGED <<storeVars, key_info_screen>>
    \/ refresh /\ UNCHANGED <<storeVars, key_info_screen>>
    \/ \E m \in Messages : display_message(m) /\ UNCHANGED <<storeVars, key_info_screen>>

SpecScreen == InitScreen /\ [][NextScreen]_vars

(* SpecRefresh: refresh statement by statement, next to the other callers  *)
(* of the screen.  A caller that needs the screen waits while it is        *)
(* borrowed; one that needs the snapshot's write lock waits for the guard. *)
NextRefresh ==
    \/ \E r \in TaskResults :
          /\ ~ScreenBorrowed /\ ~WriteLocked /\ Fits(r, MaxRecords)
          /\ display_task_result(r) /\ UNCHANGED <<storeVars, key_info_screen>>
    \/ \E m \in Messages : ~ScreenBorrowed /\ display_message(m) /\ UNCHANGED <<storeVars, key_info_screen>>
    \/ refresh_lock /\ UNCHANGED <<storeVars, key_info_screen>>
    \/ refresh_clear_data /\ UNCHANGED <<storeVars, key_info_screen>>
    \/ refresh_clear_error /\ UNCHANGED <<storeVars, key_info_screen>>
    \/ \E b \in Builds : ui(NoEvent, b) /\ UNCHANGED <<storeVars, key_info_screen>>

SpecRefresh == InitScreen /\ [][NextRefresh]_vars

(* The rows a frame puts in the table: nothing while a message is held or  *)
(* no snapshot exists, else the current page of the sorted records.        *)
RenderedRows ==
    IF IsSome(error_message) \/ data = None
    THEN << >>
    ELSE LET w == sort_withdraws_data(Unwrap(data).withdrawals)
             start_index == current_page_of(Len(w), pagination_items_per_page)
                                * pagination_items_per_page
             end_index == Min(start_index + pagination_items_per_page, Len(w))
         IN  SubSeq(w, start_index + 1, end_index)

(* The screen with a user at its widgets: results arrive, the user         *)
(* refreshes, and each frame carries at most one of the given events.      *)
ScreenNext(E) ==
    \/ \E r \in TaskResults : Fits(r, MaxRecords) /\ display_task_result(r) /\ UNCHANGED <<storeVars, key_info_screen>>
    \/ refresh /\ UNCHANGED <<storeVars, key_info_screen>>
    \/ \E m \in Messages : display_message(m) /\ UNCHANGED <<storeVars, key_info_screen>>
    \/ \E e \in E, b \in Builds : ui(e, b) /\ UNCHANGED <<storeVars, key_info_screen>>

(* SpecFilter: the user ticks and unticks the status checkboxes.           *)
NextFilter == ScreenNext({NoEvent} \cup CheckboxEvents)
SpecFilter == InitScreen /\ [][NextFilter]_vars

(* SpecSort: the user clicks the column headers.                           *)
NextSort == ScreenNext({NoEvent} \cup ColumnEvents)
SpecSort == InitScreen /\ [][NextSort]_vars

(* SpecPages: snapshots long enough for several pages.  Results bring 0, 1 *)
(* or 10 records, all of one owner, numbered by date.                      *)
MaxPageRecords == 21

PageBatchSizes == {0, 1, 10}

PageBatch(k) == [i \in 1..k |-> WithdrawRecord(i, "QUEUED", 100, "O1", "A1")]

PageResults ==
    {[kind |-> "WithdrawalStatus",
      data |-> Some(StatusData(PageBatch(k),
                               [total_amount |-> 100, recent_withdrawal_amounts |-> 10,
                                daily_withdrawal_limit |-> 500,
                                total_credits_on_platform |-> 9000]))] :
        k \in PageBatchSizes}

NextPages ==
    \/ \E r \in PageResults :
          Fits(r, MaxPageRecords) /\ display_task_result(r) /\ UNCHANGED <<storeVars, key_info_screen>>
    \/ refresh /\ UNCHANGED <<storeVars, key_info_screen>>
    \/ \E m \in Messages : display_message(m) /\ UNCHANGED <<storeVars, key_info_screen>>
    \/ \E e \in {NoEvent} \cup ItemsPerPageEvents \cup PageEvents, b \in Builds :
          ui(e, b) /\ UNCHANGED <<storeVars, key_info_screen>>

SpecPages == InitScreen /\ [][NextPages]_vars

(* SpecView: every kind of view event over the long snapshots: a status    *)
(* checkbox, the column headers, the page sizes, Previous and Next.        *)
ViewEvents ==
    {NoEvent, Event("checkbox", "QUEUED", 15, "DateTime"),
     Event("column", "QUEUED", 15, "DateTime"), Event("column", "QUEUED", 15, "Amount"),
     Event("items_per_page", "QUEUED", 10, "DateTime"),
     Event("items_per_page", "QUEUED", 15, "DateTime")} \cup PageEvents

NextView ==
    \/ \E r \in PageResults :
          Fits(r, MaxPageRecords) /\ display_task_result(r) /\ UNCHANGED <<storeVars, key_info_screen>>
    \/ refresh /\ UNCHANGED <<storeVars, key_info_screen>>
    \/ \E m \in Messages : display_message(m) /\ UNCHANGED <<storeVars, key_info_screen>>
    \/ \E e \in ViewEvents, b \in Builds : ui(e, b) /\ UNCHANGED <<storeVars, key_info_screen>>

SpecView == InitScreen /\ [][NextView]_vars

-----------------------------------------------------------------------------
(* The key screen (ui/key_info.rs): one public key of one identity, and    *)
(* a text field in which the user may supply its private key.              *)

Ok(x) == [kind |-> "Ok", value |-> x]
Err(e) == [kind |-> "Err", value |-> e]

(* hex::decode: an odd number of characters or a character that is no hex  *)
(* digit is an error; otherwise each pair of digits is one byte.           *)
HexLower == <<"0", "1", "2", "3", "4", "5", "6", "7", "8", "9", "a", "b", "c", "d", "e", "f">>
HexUpper == <<"0", "1", "2", "3", "4", "5", "6", "7", "8", "9", "A", "B", "C", "D", "E", "F">>

IsHexDigit(c) == \E i \in 1..16 : HexLower[i] = c \/ HexUpper[i] = c

HexValue(c) == (CHOOSE i \in 1..16 : HexLower[i] = c \/ HexUpper[i] = c) - 1

hex_decode(input) ==
    IF Len(input) % 2 # 0 THEN Err("OddLength")
    ELSE IF \E i \in 1..Len(input) : ~IsHexDigit(input[i]) THEN Err("InvalidHexCharacter")
    ELSE Ok([i \in 1..(Len(input) \div 2) |->
                16 * HexValue(input[2 * i - 1]) + HexValue(input[2 * i])])

(* What the user can type: texts of up to MaxInputLen characters.          *)
MaxInputLen == 2

InputChars == {"0", "a", "g"}

PrivateKeyInputs == SeqsUpTo(InputChars, MaxInputLen)

(* The public keys shown, and for each the private key that pairs with it. *)
Keys == {[purpose |-> "AUTHENTICATION", id |-> 1]}

PrivateKeyOf(key) == <<10>>

(* IdentityPublicKey::validate_private_key_bytes: an error for bytes that  *)
(* are no private key of the key's type, else whether the pair matches.    *)
validate_private_key_bytes(key, private_key_bytes, network) ==
    IF Len(private_key_bytes) # Len(PrivateKeyOf(key))
    THEN Err("InvalidVectorSizeError")
    ELSE Ok(private_key_bytes = PrivateKeyOf(key))

(* The identity on the screen: the fields the store reads and the map of   *)
(* private keys, from (purpose, key id) to (key, private key bytes).       *)
KeyScreenIdentities ==
    [id : Ids, identity_type : {"User"}, alias : Option(Aliases),
     encrypted_private_keys : {<< >>}]

MapInsert(map, k, v) == [x \in DOMAIN map \cup {k} |-> IF x = k THEN v ELSE map[x]]

(* KeyInfoScreen::new                                                      *)
KeyInfoScreen_new(identity, key, private_key_bytes, network) ==
    [identity |-> identity, key |-> key, private_key_bytes |-> private_key_bytes,
     app_context |-> [network |-> network],
     private_key_input |-> << >>, error_message |-> None]

(* AppContext::insert_local_qualified_identity: the store's insert without *)
(* wallet information under the context's network; a failure of the        *)
(* statement comes back as an error and leaves the table as it was.        *)
AppContext_insert_local_qualified_identity(qualified_identity, network, store_fails) ==
    IF store_fails
    THEN /\ lastCall' = Done("insert_local", "SqliteFailure", 0)
         /\ UNCHANGED <<table, topUps, mutex, pc, args>>
    ELSE \E t \in MainThread :
            insert_local_qualified_identity(t, qualified_identity, None, network)

(* The text field of the screen, shown while no private key is held.       *)
edit_private_key_input(text) ==
    /\ key_info_screen.private_key_bytes = None
    /\ key_info_screen' = [key_info_screen EXCEPT !.private_key_input = text]
    /\ lastEvent' = "edit_private_key_input"
    /\ UNCHANGED <<storeVars, data, error_message, viewVars, screen_pc, observed>>

(* if validation_result.unwrap() { accept } else { mismatch }              *)
KeyPairConfirmed_AnyOk(validation_result) == TRUE

KeyPairConfirmed(validation_result) == validation_result.value = TRUE

(* validate_and_store_private_key, called by the "Add Private Key" button. *)
validate_and_store_private_key(store_fails) ==
    LET self == key_info_screen
        decoded == hex_decode(self.private_key_input)
        Refuse(message) ==
            /\ key_info_screen' = [self EXCEPT !.error_message = Some(message)]
            /\ UNCHANGED storeVars
    IN  /\ self.private_key_bytes = None
        /\ lastEvent' = "validate_and_store_private_key"
        /\ UNCHANGED <<data, error_message, viewVars, screen_pc, observed>>
        /\ IF decoded.kind = "Err"
           THEN Refuse("Invalid hex string for private key.")
           ELSE LET private_key_bytes == decoded.value
                    validation_result ==
                        validate_private_key_bytes(self.key, private_key_bytes,
                                                   self.app_context.network)
                    identity ==
                        [self.identity EXCEPT !.encrypted_private_keys =
                            MapInsert(@, <<self.key.purpose, self.key.id>>,
                                      <<self.key, private_key_bytes>>)]
                IN  IF validation_result.kind = "Err"
                    THEN Refuse("Issue verifying private key")
                    ELSE IF KeyPairConfirmed(validation_result)
                    THEN /\ AppContext_insert_local_qualified_identity(
                                identity, self.app_context.network, store_fails)
                         /\ key_info_screen' =
                               [self EXCEPT !.private_key_bytes = Some(private_key_bytes),
                                            !.identity = identity,
                                            !.error_message =
                                                IF store_fails THEN Some("Issue saving")
                                                ELSE None]
                    ELSE Refuse("Private key does not match the public key.")

(* SpecKeyInfo: a key screen opened on an identity that is new to the      *)
(* store or was loaded from its wallet-linked row; the user types and      *)
(* presses the button.                                                     *)
InitKeyInfo ==
    \E identity \in KeyScreenIdentities, key \in Keys, network \in Networks :
        /\ table \in {EmptyBag,
                      SetToBag({LocalRow(identity, Some(<<"W", 3>>), network)})}
        /\ topUps = {}
        /\ mutex = [holder |-> NoThread, poisoned |-> FALSE]
        /\ pc = [t \in Threads |-> "idle"]
        /\ args = [t \in Threads |-> NoArgs]
        /\ lastCall = Done("none", "Ok", 0)
        /\ new
        /\ key_info_screen \in
              {KeyInfoScreen_new(identity, key, b, network) :
                  b \in {None, Some(PrivateKeyOf(key))}}

NextKeyInfo ==
    \/ \E text \in PrivateKeyInputs : edit_private_key_input(text)
    \/ \E store_fails \in BOOLEAN : validate_and_store_private_key(store_fails)

SpecKeyInfo == InitKeyInfo /\ [][NextKeyInfo]_vars

-----------------------------------------------------------------------------
(* Properties of the identity store.                                       *)

RowsAt(t, id, network) ==
    LET P(r) == r.id = id /\ r.network = network
    IN  SelectBag(t, P)

LocalRowsAt(t, id, network) ==
    LET P(r) == r.id = id /\ r.network = network /\ r.is_local = 1
    IN  SelectBag(t, P)

RowsOf(t, id) ==
    LET P(r) == r.id = id
    IN  SelectBag(t, P)

(* C1: after any sequence of store operations, under any mix of networks,  *)
(* the identity table holds at most one row per (identifier, network).     *)
C1_OneRowPerKey ==
    \A id \in Ids, n \in Networks : BagCardinality(RowsAt(table, id, n)) <= 1

(* An identifier with a local row in each network, just after an update    *)
(* that would have put both rows under one network was rejected.           *)
C1_Witness ==
    /\ lastCall = Done("update_local", "ConstraintViolation", 0)
    /\ \E id \in Ids : \A n \in Networks : BagCardinality(LocalRowsAt(table, id, n)) = 1

(* C2: a call of insert_remote_identity_if_not_exists for a key that has   *)
(* no row returns success, and then exactly one row with is_local = 0      *)
(* exists for the key.  Stated for finite runs: no such call ends hung on  *)
(* the mutex or panicked.                                                  *)
C2_AbsentInsertReturnsOk ==
    \A t \in Threads : pc[t] \notin {"ir_deadlocked", "ir_panicked"}

(* C3: under any interleaving of concurrent insert_if_absent calls, a      *)
(* caller that has made its existence check and not yet its insert holds   *)
(* the connection mutex, no step of another thread is a store operation    *)
(* meanwhile, and no key ever has two rows.                                *)
BetweenCheckAndInsert(t) == pc[t] = "ir_insert"

C3_CheckThenActExclusive ==
    /\ [](\A t \in Threads : BetweenCheckAndInsert(t) => mutex.holder = t)
    /\ [][\A t \in Threads :
            (BetweenCheckAndInsert(t) /\ pc'[t] = pc[t]) =>
                (table' = table /\ topUps' = topUps /\ lastCall' = lastCall)]_vars
    /\ [](\A id \in Ids, n \in Networks : BagCardinality(RowsAt(table, id, n)) <= 1)

(* Two calls for the same key in flight: one past its check, holding the   *)
(* mutex, the other waiting for it.                                        *)
C3_Witness ==
    \E t, u \in Threads :
        /\ pc[t] = "ir_insert" /\ pc[u] = "ir_wait"
        /\ args[t].id = args[u].id /\ args[t].network = args[u].network
        /\ mutex.holder = t

(* C4: if a record exists for (identifier, network), observe-remote        *)
(* returns without touching the table: no field of any row changes and no  *)
(* row is added.                                                           *)
C4_ObserveRemoteNonClobber ==
    [][(lastCall'.op = "insert_remote" \/ \E t \in Threads : pc'[t] = "ir_insert") =>
          \A id \in Ids, n \in Networks :
              BagCardinality(RowsAt(table, id, n)) > 0 =>
                  \A t \in Threads, qi \in RemoteIdentities(id, UserIdentities) :
                      insert_remote_check(t, id, qi, n) =>
                          /\ table' = table
                          /\ pc'[t] = "idle"
                          /\ lastCall' = Done("insert_remote", "Ok", 0)]_vars

(* observe-remote has returned and the table holds a local record with an  *)
(* alias and a remote stub.                                                *)
C4_Witness ==
    /\ lastCall = Done("insert_remote", "Ok", 0)
    /\ \E r \in Rows(table) : r.is_local = 1 /\ r.alias # None /\ r.wallet # None
    /\ \E r \in Rows(table) : r.is_local = 0

(* C5: create-local called again with the input whose row the table        *)
(* already holds (the input of an earlier create-local, read back from the *)
(* row it wrote) leaves exactly one row for the key and the same table.    *)
IdentityOfRow(r) ==
    [id |-> r.id, identity_type |-> r.identity_type, alias |-> r.alias]

WalletInfoOfRow(r) ==
    IF r.wallet = None THEN None ELSE Some(<<Unwrap(r.wallet), Unwrap(r.wallet_index)>>)

C5_UpsertIdempotent ==
    [][lastCall'.op = "insert_local" =>
          \A r \in Rows(table), t \in Threads :
              (r.is_local = 1 /\ r.is_in_creation = None
                  /\ insert_local_qualified_identity(t, IdentityOfRow(r),
                                                     WalletInfoOfRow(r), r.network)) =>
                      /\ table' = table
                      /\ BagCardinality(RowsAt(table', r.id, r.network)) = 1]_vars

(* create-local has just run and its key has one local row, beside rows of *)
(* the same identifier in the other network.                               *)
C5_Witness ==
    /\ lastCall = Done("insert_local", "Ok", 1)
    /\ \E id \in Ids : \A n \in Networks : BagCardinality(LocalRowsAt(table, id, n)) = 1

(* C6: set_alias on an identifier with no row returns the not-found error  *)
(* and leaves the table as it was.                                         *)
C6_AliasNotFound ==
    [][lastCall'.op = "set_alias" =>
          \A t \in Threads, id \in Ids, a \in Option(Aliases) :
              (RowsOf(table, id) = EmptyBag /\ set_alias(t, id, a)) =>
                  /\ lastCall'.result = "QueryReturnedNoRows"
                  /\ table' = table]_vars

(* set_alias has failed on an unknown identifier while another identifier  *)
(* has rows.                                                               *)
C6_Witness ==
    /\ lastCall = Done("set_alias", "QueryReturnedNoRows", 0)
    /\ table # EmptyBag

(* C7: delete_local on a remote-only or missing row succeeds and changes   *)
(* nothing; on a local row it removes exactly that row and leaves the rows *)
(* of every other (identifier, network) unchanged.                         *)
C7_DeleteScope ==
    [][lastCall'.op = "delete_local" =>
          \A t \in Threads, id \in Ids, n \in Networks :
              delete_local_qualified_identity(t, id, n) =>
                  /\ lastCall'.result = "Ok"
                  /\ IF LocalRowsAt(table, id, n) = EmptyBag
                     THEN table' = table
                     ELSE /\ RowsAt(table', id, n) = EmptyBag
                          /\ BagCardinality(table') = BagCardinality(table) - 1
                          /\ \A id2 \in Ids, n2 \in Networks :
                                <<id2, n2>> # <<id, n>> =>
                                    RowsAt(table', id2, n2) = RowsAt(table, id2, n2)]_vars

(* delete_local has removed one row; the same identifier's row in the      *)
(* other network and a remote stub are still there.                        *)
C7_Witness ==
    /\ lastCall = Done("delete_local", "Ok", 1)
    /\ \E r \in Rows(table) : r.is_local = 1
    /\ \E r \in Rows(table) : r.is_local = 0

(* C8: the local listing of network N has exactly one entry per row with   *)
(* is_local = 1 and network N, none for remote-only rows or rows of other  *)
(* networks, and an identity without recorded top-ups has empty top_ups.   *)
EntriesOf(L, id) ==
    LET P(e) == e.id = id
    IN  BagCardinality(SelectBag(L, P))

C8_LocalListingExact ==
    \A n \in Networks :
        LET L == get_local_qualified_identities(n)
        IN  /\ \A id \in Ids :
                  EntriesOf(L, id) = BagCardinality(LocalRowsAt(table, id, n))
            /\ BagCardinality(L) =
                  Cardinality({id \in Ids : LocalRowsAt(table, id, n) # EmptyBag})
            /\ \A e \in BagToSet(L) :
                  {r \in topUps : r.identity_id = e.id} = {} => e.top_ups = << >>

(* testnet lists exactly I1, with empty top-ups, while the table also      *)
(* holds a remote stub on testnet, a local row on dash and top-ups of I2.  *)
C8_Witness ==
    LET L == get_local_qualified_identities("testnet")
    IN  /\ BagCardinality(L) = 1
        /\ \E e \in BagToSet(L) : e.id = "I1" /\ e.top_ups = << >>
        /\ BagCardinality(RowsAt(table, "I2", "testnet")) = 1
        /\ BagCardinality(LocalRowsAt(table, "I2", "dash")) = 1
        /\ \E r \in topUps : r.identity_id = "I2"

(* C9: every listed identity's top_ups is exactly the set of top-up        *)
(* entries recorded for it, and its wallet index is the derivation index   *)
(* given to the insert that created its row.                               *)
RecordedTopUps(id) ==
    {<<r.top_up_index, r.amount>> : r \in {x \in topUps : x.identity_id = id}}

Pairs(f) == {<<i, f[i]>> : i \in DOMAIN f}

C9_TopUpsAndWalletIndex ==
    \A n \in Networks :
        \A e \in BagToSet(get_local_qualified_identities(n)) :
            /\ Pairs(e.top_ups) = RecordedTopUps(e.id)
            /\ \A r \in Rows(LocalRowsAt(table, e.id, n)) :
                  e.wallet_index = r.inserted_with

(* I1, inserted with wallet (W, 3), is listed with wallet index 3 and the  *)
(* top-ups {0: 1000, 1: 2000}, while I2 has other top-ups.                 *)
C9_Witness ==
    /\ \E n \in Networks :
          \E e \in BagToSet(get_local_qualified_identities(n)) :
              /\ e.id = "I1"
              /\ e.wallet_index = Some(3)
              /\ Pairs(e.top_ups) = {<<0, 1000>>, <<1, 2000>>}
    /\ RecordedTopUps("I2") = {<<0, 1000>>}

(* C10: after any sequence of merges, the same result delivered twice      *)
(* included, no two positions of the snapshot's record sequence hold       *)
(* records with the same (owner_id, date_time, amount).                    *)
C10_NoDuplicateRecords ==
    IsSome(data) => DuplicateFree(Unwrap(data).withdrawals)

(* C11: merging a result B into a populated snapshot A removes nothing:    *)
(* afterwards the records are A's, in their order, followed by B's, and    *)
(* the four aggregates are B's.                                            *)
C11_MergeKeepsRecords ==
    [][lastEvent' = "display_task_result" /\ IsSome(data) =>
          \A r \in TaskResults :
              (r.kind = "WithdrawalStatus" /\ display_task_result(r)) =>
                  LET A == Unwrap(data).withdrawals
                      B == Unwrap(r.data)
                      C == Unwrap(data')
                  IN  /\ Len(C.withdrawals) = Len(A) + Len(B.withdrawals)
                      /\ SubSeq(C.withdrawals, 1, Len(A)) = A
                      /\ SubSeq(C.withdrawals, Len(A) + 1, Len(C.withdrawals))
                            = B.withdrawals
                      /\ C.total_amount = B.total_amount
                      /\ C.recent_withdrawal_amounts = B.recent_withdrawal_amounts
                      /\ C.daily_withdrawal_limit = B.daily_withdrawal_limit
                      /\ C.total_credits_on_platform = B.total_credits_on_platform]_vars

(* A snapshot longer than any single result, so built by a merge: the      *)
(* queued record first, total_amount 150 from the last result.             *)
C11_Witness ==
    /\ lastEvent = "display_task_result"
    /\ IsSome(data)
    /\ Len(Unwrap(data).withdrawals) > MaxBatch
    /\ Unwrap(data).withdrawals[1] = WithdrawRecord(1, "QUEUED", 100, "O1", "A1")
    /\ Unwrap(data).withdrawals[3] = WithdrawRecord(2, "POOLED", 200, "O2", "A2")
    /\ Unwrap(data).total_amount = 150

InRefresh == screen_pc \in {"rf_locked", "rf_data_cleared"}

C13_RefreshAtomic ==
    /\ [][InRefresh => lastEvent' # "ui"]_vars
    /\ [][(InRefresh /\ screen_pc' = "idle") =>
              (data' = None /\ error_message' = None)]_vars
    /\ []((lastEvent = "refresh" /\ ~InRefresh) =>
              (data = None /\ error_message = None))

(* Inside a refresh, the snapshot cleared and the message still held, with *)
(* a frame that showed the message before the refresh began.               *)
C13_Witness ==
    /\ screen_pc = "rf_data_cleared"
    /\ data = None
    /\ IsSome(error_message)
    /\ observed = Some(Observation(TRUE, "unread"))

(* C14: every row a frame shows has a status that is in the current        *)
(* filter set, and with an empty filter set no row is shown.               *)
FilterSet == {filter_status_mix[i] : i \in 1..Len(filter_status_mix)}

C14_ViewShowsOnlyFiltered ==
    /\ \A i \in 1..Len(RenderedRows) : RenderedRows[i].status \in FilterSet
    /\ FilterSet = {} => RenderedRows = << >>

(* C15: for the sort column and direction in force, the sorted records    *)
(* are a permutation of the snapshot's records, ordered by the column's    *)
(* key (ascending or descending), and records with equal keys stand in     *)
(* the order they had in the snapshot.                                     *)
SnapshotRecords == IF IsSome(data) THEN Unwrap(data).withdrawals ELSE << >>

Occurrences(w, r) == Cardinality({i \in 1..Len(w) : w[i] = r})

WithKey(w, column, k) ==
    LET HasKey(r) == SortKey(column, r) = k
    IN  SelectSeq(w, HasKey)

KeysOf(w, column) == {SortKey(column, w[i]) : i \in 1..Len(w)}

C15_SortStablePermutation ==
    IsSome(sort_column) =>
        LET w == SnapshotRecords
            out == sort_withdraws_data(w)
            column == Unwrap(sort_column)
        IN  /\ Len(out) = Len(w)
            /\ \A r \in SampleRecords : Occurrences(out, r) = Occurrences(w, r)
            /\ \A i, j \in 1..Len(out) :
                  i < j => IF sort_ascending
                           THEN SortKey(column, out[i]) <= SortKey(column, out[j])
                           ELSE SortKey(column, out[i]) >= SortKey(column, out[j])
            /\ \A k \in KeysOf(w, column) : WithKey(out, column, k) = WithKey(w, column, k)

(* Amount, descending, after two clicks on the column: the 200 record      *)
(* moves to the front and the two 100 records keep their order.            *)
C15_Witness ==
    /\ lastEvent = "ui"
    /\ sort_column = Some("Amount") /\ ~sort_ascending
    /\ SnapshotRecords = << WithdrawRecord(1, "COMPLETE", 100, "O1", "A1"),
                            WithdrawRecord(2, "POOLED", 200, "O2", "A2"),
                            WithdrawRecord(1, "QUEUED", 100, "O1", "A1") >>
    /\ sort_withdraws_data(SnapshotRecords) =
          << WithdrawRecord(2, "POOLED", 200, "O2", "A2"),
             WithdrawRecord(1, "COMPLETE", 100, "O1", "A1"),
             WithdrawRecord(1, "QUEUED", 100, "O1", "A1") >>

(* C16, as stated: for every column, the descending order of the records   *)
(* is the exact reverse of their ascending order.                          *)
Reverse(w) == [i \in 1..Len(w) |-> w[Len(w) + 1 - i]]

C16_DescendingIsReverse ==
    \A column \in SortColumns :
        sort_by(SnapshotRecords, column, FALSE)
            = Reverse(sort_by(SnapshotRecords, column, TRUE))

(* C16, amended: when no two records have the same key in the sort column, *)
(* the order after toggling the direction is the exact reverse of the      *)
(* order before.                                                           *)
NoTies(w, column) ==
    \A i, j \in 1..Len(w) : i # j => SortKey(column, w[i]) # SortKey(column, w[j])

C16_ToggleReversesWithoutTies ==
    (IsSome(sort_column) /\ NoTies(SnapshotRecords, Unwrap(sort_column))) =>
        sort_by(SnapshotRecords, Unwrap(sort_column), ~sort_ascending)
            = Reverse(sort_withdraws_data(SnapshotRecords))

(* Status, descending after a second click, over three records of          *)
(* different status: COMPLETE, POOLED, QUEUED.                             *)
C16_Witness ==
    /\ lastEvent = "ui"
    /\ sort_column = Some("Status") /\ ~sort_ascending
    /\ Len(SnapshotRecords) = 3
    /\ NoTies(SnapshotRecords, "Status")
    /\ sort_withdraws_data(SnapshotRecords)[1].status = "COMPLETE"
    /\ sort_withdraws_data(SnapshotRecords)[3].status = "QUEUED"

(* C17: with n records and page size p, the page count is ceil(n/p), 0    *)
(* for n = 0, the page a frame shows is within [0, page count - 1] (page 0 *)
(* when there is no page), and no click or page-size change makes the      *)
(* screen fail.                                                            *)
Ceil(n, p) == CHOOSE k \in 0..n : k * p >= n /\ (k = 0 \/ (k - 1) * p < n)

C17_PaginationBounds ==
    /\ screen_pc # "panicked"
    /\ pagination_items_per_page \in PaginationItemsPerPage
    /\ IsSome(data) =>
          LET n == Len(Unwrap(data).withdrawals)
              total_pages == total_pages_of(n, pagination_items_per_page)
              current_page == current_page_of(n, pagination_items_per_page)
          IN  /\ total_pages = Ceil(n, pagination_items_per_page)
              /\ total_pages > 0 => current_page \in 0..(total_pages - 1)
              /\ total_pages = 0 => current_page = 0

(* C18: an update for an (identifier, network) that has no row reports    *)
(* success and leaves the whole table as it was.                           *)
C18_UpdateAbsentNoEffect ==
    [][lastCall'.op = "update_local" =>
          \A t \in MainThread, qi \in UserIdentities, n \in Networks :
              (RowsAt(table, qi.id, n) = EmptyBag
                  /\ update_local_qualified_identity(t, qi, n)) =>
                      (table' = table /\ lastCall'.result = "Ok")]_vars

(* C19: a store call issued under network n, for an identifier that has a  *)
(* row in every network, leaves the local listing of every other network   *)
(* as it was; set_alias, which is given no network, changes the listing of *)
(* at most one.                                                            *)
ExistsInAllNetworks(id) == \A n \in Networks : RowsAt(table, id, n) # EmptyBag

ListingChanged(m) ==
    get_local_qualified_identities(m)' # get_local_qualified_identities(m)

IssuedUnder(id, n) ==
    \E t \in MainThread :
        \/ \E qi \in UserIdentities, w \in WalletInfos :
              qi.id = id /\ insert_local_qualified_identity(t, qi, w, n)
        \/ \E qi \in UserIdentities :
              qi.id = id /\ update_local_qualified_identity(t, qi, n)
        \/ \E qi \in UserIdentities, w \in WalletIds, i \in WalletIndices :
              qi.id = id /\ insert_local_qualified_identity_in_creation(t, qi, w, i, n)
        \/ delete_local_qualified_identity(t, id, n)
        \/ \E qi \in RemoteIdentities(id, UserIdentities) :
              insert_remote_check(t, id, qi, n)

C19_NetworkIsolation ==
    [][\A id \in Ids :
          ExistsInAllNetworks(id) =>
              /\ \A n \in Networks :
                    IssuedUnder(id, n) =>
                        \A m \in Networks \ {n} : ~ListingChanged(m)
              /\ (\E t \in MainThread, a \in Option(Aliases) : set_alias(t, id, a)) =>
                    Cardinality({m \in Networks : ListingChanged(m)}) <= 1]_vars

(* C20: the user listing and the voting listing of a network return the    *)
(* local identities of their type that the full listing returns, each with *)
(* the top-ups recorded for it.                                            *)
IdsIn(L) == {e.id : e \in BagToSet(L)}

IdsOfType(L, user) == {e.id : e \in {x \in BagToSet(L) : (x.identity_type = "User") = user}}

C20_TypedListingsWithTopUps ==
    \A n \in Networks :
        LET all == get_local_qualified_identities(n)
            users == get_local_user_identities(n)
            voting == get_local_voting_identities(n)
        IN  /\ IdsIn(users) = IdsOfType(all, TRUE)
            /\ IdsIn(voting) = IdsOfType(all, FALSE)
            /\ \A e \in BagToSet(users) \cup BagToSet(voting) :
                  Pairs(e.top_ups) = RecordedTopUps(e.id)

LocalRowsHaveData(t) == \A r \in Rows(t) : r.is_local = 1 => IsSome(r.data)

(* C21: every row with is_local = 1 has its data blob present, before and  *)
(* after every step; and an update_local_qualified_identity that matches a *)
(* remote stub whose data is absent leaves every row of that identifier    *)
(* with is_local = 1 and data present.                                     *)
C21_LocalImpliesData ==
    [][/\ LocalRowsHaveData(table)
       /\ LocalRowsHaveData(table')
       /\ (lastCall'.op = "update_local" /\ lastCall'.result = "Ok") =>
            \A id \in Ids :
                (/\ \E r \in Rows(table) : r.id = id /\ r.is_local = 0 /\ r.data = None
                 /\ \E t \in Threads, qi \in QualifiedIdentities, n \in Networks :
                        qi.id = id /\ update_local_qualified_identity(t, qi, n))
                => \A r \in Rows(table') :
                        r.id = id => r.is_local = 1 /\ IsSome(r.data)]_vars

(* The only row of the table is a local row with its blob, just after an   *)
(* update that matched one row: the table started with remote stubs only.  *)
C21_Witness ==
    /\ lastCall = Done("update_local", "Ok", 1)
    /\ \E r \in Rows(table) :
          /\ r.is_local = 1 /\ IsSome(r.data)
          /\ r.is_in_creation = None /\ r.wallet = None
    /\ \E r \in Rows(table) : r.is_local = 0 /\ r.data = None

HasWalletColumns(r) ==
    IsSome(r.wallet) \/ IsSome(r.wallet_index) \/ r.is_in_creation = Some(1)

(* C26: insert-or-replace replaces the whole row.  When                    *)
(* insert_local_qualified_identity without wallet information is applied   *)
(* to a key whose row had a wallet id, a wallet index or is_in_creation =  *)
(* 1, the key then has exactly one row, with none of the three, and the    *)
(* local listing of that network returns the identity without wallet index.*)
C26_ReplaceDropsWalletColumns ==
    [][lastCall'.op = "insert_local" =>
        \A qi \in QualifiedIdentities, n \in Networks :
            (/\ \E r \in Rows(RowsAt(table, qi.id, n)) : HasWalletColumns(r)
             /\ \E t \in Threads : insert_local_qualified_identity(t, qi, None, n))
            => /\ BagCardinality(RowsAt(table', qi.id, n)) = 1
               /\ \A r \in Rows(RowsAt(table', qi.id, n)) :
                     /\ r.wallet = None
                     /\ r.wallet_index = None
                     /\ r.is_in_creation = None
               /\ \A e \in BagToSet(get_local_qualified_identities(n)') :
                     e.id = qi.id => e.wallet_index = None]_vars

(* Just after an insert, identifier I1 has a row without any wallet column *)
(* in one network while its row in the other network is still in creation  *)
(* under a wallet.                                                         *)
C26_Witness ==
    /\ lastCall = Done("insert_local", "Ok", 1)
    /\ \E r \in Rows(RowsAt(table, "I1", "dash")) :
          r.is_local = 1 /\ ~HasWalletColumns(r)
    /\ \E r \in Rows(RowsAt(table, "I1", "testnet")) :
          r.is_in_creation = Some(1) /\ IsSome(r.wallet)
    /\ \E e \in BagToSet(get_local_qualified_identities("dash")) :
          e.id = "I1" /\ e.wallet_index = None

(* C27: for every network N, get_local_user_identities(N) and              *)
(* get_local_voting_identities(N) return disjoint sets of identities, the  *)
(* first all of type User and the second none of type User, and together   *)
(* they return exactly the identities get_local_qualified_identities(N)    *)
(* returns: each local record is in one of the two, none in both.          *)
C27_TypedListingsPartition ==
    \A n \in Networks :
        LET all == get_local_qualified_identities(n)
            users == get_local_user_identities(n)
            voting == get_local_voting_identities(n)
        IN  /\ IdsIn(users) \cap IdsIn(voting) = {}
            /\ IdsIn(users) \cup IdsIn(voting) = IdsIn(all)
            /\ BagCardinality(users) + BagCardinality(voting) = BagCardinality(all)
            /\ \A e \in BagToSet(users) : e.identity_type = "User"
            /\ \A e \in BagToSet(voting) : e.identity_type # "User"

(* One network lists a User identity and a Masternode identity, the other  *)
(* network has a remote stub that no listing returns.                      *)
C27_Witness ==
    /\ IdsIn(get_local_user_identities("dash")) = {"I1"}
    /\ IdsIn(get_local_voting_identities("dash")) = {"I2"}
    /\ IdsIn(get_local_qualified_identities("dash")) = {"I1", "I2"}
    /\ \E r \in Rows(table) : r.network = "testnet" /\ r.is_local = 0
    /\ IdsIn(get_local_qualified_identities("testnet")) = {}

(* C24: in every state reachable from the state new() constructs,          *)
(* filter_status_mix holds exactly the statuses whose checkbox flag is     *)
(* true, in the order QUEUED, POOLED, BROADCASTED, COMPLETE, EXPIRED.       *)
C24_MixMatchesFlags ==
    filter_status_mix = util_build_combined_filter_status_mix(filter_status)

(* C25: a frame never fails on the guard arithmetic of the Next button     *)
(* (total_pages - 1 on an unsigned count), a click on Next never stores a  *)
(* page above page_count - 1, and a click on Previous never stores a page  *)
(* below 0; this includes a snapshot with no records (page_count = 0).     *)
(* Only Next raises the stored page and only Previous lowers it.           *)
C25_PageClicksStayInRange ==
    [][(lastEvent' = "ui" /\ screen_pc = "idle" /\ IsSome(data)) =>
          LET n == Len(Unwrap(data).withdrawals)
              page_count == total_pages_of(n, pagination_items_per_page')
          IN  /\ screen_pc' # "panicked"
              /\ pagination_current_page' > pagination_current_page =>
                    pagination_current_page' <= page_count - 1
              /\ pagination_current_page' >= 0]_vars

(* C23: no view operation changes the shared snapshot: a frame that        *)
(* renders, sorts, handles a column click, toggles a filter, changes the   *)
(* page or the page size leaves the snapshot exactly as it was.            *)
C23_ViewLeavesSnapshot ==
    [][lastEvent' = "ui" => data' = data]_vars

(* Just after a frame: the second page of ten is shown, a filter has been  *)
(* unticked, and the rows are drawn in an order that is not the snapshot's.*)
C23_Witness ==
    /\ lastEvent = "ui"
    /\ screen_pc = "idle"
    /\ Len(SnapshotRecords) >= 11
    /\ pagination_items_per_page = 10
    /\ pagination_current_page = 1
    /\ ~filter_status["QUEUED"]
    /\ sort_withdraws_data(SnapshotRecords) # SnapshotRecords
    /\ RenderedRows # SubSeq(SnapshotRecords, 11, 10 + Len(RenderedRows))

(* The text in the field decodes as hex and the validator answers Ok(true) *)
(* for the decoded bytes.                                                  *)
KeyInputConfirmed(s) ==
    LET d == hex_decode(s.private_key_input)
    IN  /\ d.kind = "Ok"
        /\ LET v == validate_private_key_bytes(s.key, d.value, s.app_context.network)
           IN  v.kind = "Ok" /\ v.value = TRUE

(* C22: externally supplied private-key material is accepted only after    *)
(* the validator confirms the pair.  A step sets private_key_bytes, changes *)
(* the identity or calls the store only when the field's text decodes as   *)
(* hex and the validator returns Ok(true), and then private_key_bytes is   *)
(* the decoded bytes, the identity's key map has them under the key, and a *)
(* successful store call leaves the identity's local row; a press of the   *)
(* button with invalid hex, a validator error or a mismatch leaves the     *)
(* identity, private_key_bytes and the store unchanged and sets a message. *)
C22_KeyAcceptedOnlyWhenConfirmed ==
    [][LET s == key_info_screen
           s2 == key_info_screen'
           pressed == lastEvent' = "validate_and_store_private_key"
       IN  /\ (\/ s2.private_key_bytes # s.private_key_bytes
               \/ s2.identity # s.identity
               \/ storeVars' # storeVars) => (pressed /\ KeyInputConfirmed(s))
           /\ (pressed /\ ~KeyInputConfirmed(s)) =>
                 /\ s2.identity = s.identity
                 /\ s2.private_key_bytes = s.private_key_bytes
                 /\ storeVars' = storeVars
                 /\ IsSome(s2.error_message)
           /\ (pressed /\ KeyInputConfirmed(s)) =>
                 /\ s2.private_key_bytes = Some(hex_decode(s.private_key_input).value)
                 /\ s2.identity.encrypted_private_keys[<<s.key.purpose, s.key.id>>]
                       = <<s.key, Unwrap(s2.private_key_bytes)>>
                 /\ lastCall'.op = "insert_local"
                 /\ lastCall'.result = "Ok" =>
                       /\ s2.error_message = None
                       /\ BagCardinality(LocalRowsAt(table', s.identity.id,
                                                     s.app_context.network)) = 1]_vars

(* The user typed the matching key in hex and pressed the button: the      *)
(* screen holds the bytes, the identity's map has the key, the store has   *)
(* the identity's local row and no message is shown.                       *)
C22_Witness ==
    /\ lastEvent = "validate_and_store_private_key"
    /\ key_info_screen.private_key_input = <<"0", "a">>
    /\ key_info_screen.private_key_bytes = Some(<<10>>)
    /\ DOMAIN key_info_screen.identity.encrypted_private_keys = {<<"AUTHENTICATION", 1>>}
    /\ key_info_screen.error_message = None
    /\ lastCall = Done("insert_local", "Ok", 1)
    /\ BagCardinality(LocalRowsAt(table, key_info_screen.identity.id,
                                  key_info_screen.app_context.network)) = 1

=============================================================================
